---- MODULE Spec2Model ----
(***************************************************************************)
(* Model of pkg/bbcloud/pullrequests.go: the pull request client of the    *)
(* Bitbucket Cloud API (ListPullRequests, GetPullRequest,                  *)
(* CreatePullRequest, UpdatePullRequest, CommentPullRequest).              *)
(*                                                                         *)
(* One call runs at a time (the client holds no state across calls).  The  *)
(* four single-request operations are one action each; ListPullRequests is *)
(* one action for its prologue and one action per iteration of its         *)
(* pagination loop.  Every call of c.http.NewRequest and c.http.Do is      *)
(* written to the log `transport`, with its outcome.                       *)
(*                                                                         *)
(* Strings that the code looks into (trims, folds, escapes, formats) are    *)
(* sequences of runes, a rune being its Unicode code point; strings that   *)
(* it only passes on or compares with "" are TLA+ strings.                 *)
(***************************************************************************)
EXTENDS Integers, Sequences, FiniteSets, TLC

VARIABLES
    pc,         \* "idle" | "list" (inside the pagination loop) | "done"
    call,       \* the operation in progress or just returned, with its arguments
    srv,        \* the server's pages, as the listing in progress sees them
    path,       \* ListPullRequests: the loop variable `path`
    prs,        \* ListPullRequests: the accumulator `prs`
    transport,  \* log of the calls made to c.http.NewRequest and c.http.Do
    result      \* what the call returned: [value, items, err]

vars == <<pc, call, srv, path, prs, transport, result>>

----------------------------------------------------------------------------
(* Bounds of the model *)

MaxStrLen == 2      \* longest title / branch / comment text
MaxLine == 2        \* largest Line of a comment (LineFrom goes one further)
NumPages == 2       \* pages the server holds
MaxPageItems == 2   \* most items on one page
MaxLimit == 3       \* largest small opts.Limit

(* Program constants *)

DefaultPageLen == 20
MaxPageLen == 100

----------------------------------------------------------------------------
(* Input domains *)

\* Runes of the trimmed strings: space, no-break space (U+00A0), "x".
Chars == {32, 160, 120}

RECURSIVE StrsOfLen(_)
StrsOfLen(n) ==
    IF n = 0 THEN {<<>>}
    ELSE {Append(s, c) : s \in StrsOfLen(n - 1), c \in Chars}

Strs == UNION {StrsOfLen(n) : n \in 0..MaxStrLen}
BranchNames == {<<>>, <<160>>, <<120>>, <<32, 120>>}   \* "", NBSP, "x", " x"

Workspaces == {<<>>, <<109, 121, 32, 119, 115>>}     \* "", "my ws"
RepoSlugs == {<<>>, <<114, 47, 233>>}                \* "", "r/e-acute"
States == {<<>>, <<65, 108, 76>>, <<32, 111, 38>>}   \* "", "AlL", " o&"
Mines == {<<>>, <<98, 32>>}                          \* "", "b "
PRIds == {1, 2}
Lines == -1..MaxLine
LinesFrom == -1..(MaxLine + 1)
Outcomes == {"ok", "newrequest_fails", "do_fails"}

\* A *string of UpdatePullRequestInput: nil, or a pointer to a value.
Absent == [present |-> FALSE, val |-> ""]
Present(v) == [present |-> TRUE, val |-> v]
OptStrings == {Absent, Present(""), Present("new")}

CreateInputs ==
    [Title : Strs, Description : {"", "desc"},
     Source : BranchNames, Destination : BranchNames,
     CloseSource : BOOLEAN, Reviewers : {<<>>, <<"alice", "bob">>}]

UpdateInputs == [Title : OptStrings, Description : OptStrings]

CommentOptions ==
    [Text : Strs, FilePath : {"", "src/main.go"}, Line : Lines, LineFrom : LinesFrom]

----------------------------------------------------------------------------
(* Errors and results *)

Err(msg) == [msg |-> msg, args |-> <<>>]
ErrArgs(msg, args) == [msg |-> msg, args |-> args]
NoErr == Err("")

ErrRepoRequired == Err("workspace and repository slug are required")
ErrTitleRequired == Err("title is required")
ErrBranchesRequired == Err("source and destination branches are required")
ErrNoUpdateField == Err("at least one field (title or description) must be provided")
ErrTextRequired == Err("comment text is required")
ErrLinePositive == Err("line number must be positive when file path is specified")
ErrLineRange(from, to) ==
    ErrArgs("line range start (%d) must be less than or equal to end (%d)", <<from, to>>)

\* Errors of the transport and of url.Parse, passed through unchanged.
ErrNewRequest == Err("transport: NewRequest failed")
ErrDo == Err("transport: Do failed")
ErrUrlParse == Err("url: parse failed")

NoItems == <<>>
Result(value, items, err) == [value |-> value, items |-> items, err |-> err]
Failure(err) == Result("nil", NoItems, err)

----------------------------------------------------------------------------
(* strings.TrimSpace *)

\* unicode.IsSpace: the runes with the White_Space property.
IsSpace(c) ==
    \/ c \in 9..13
    \/ c \in {32, 133, 160, 5760, 8232, 8233, 8239, 8287, 12288}
    \/ c \in 8192..8202

RECURSIVE TrimLeft(_)
TrimLeft(s) ==
    IF s = <<>> THEN s
    ELSE IF IsSpace(Head(s)) THEN TrimLeft(Tail(s))
    ELSE s

RECURSIVE TrimRight(_)
TrimRight(s) ==
    IF s = <<>> THEN s
    ELSE IF IsSpace(s[Len(s)]) THEN TrimRight(SubSeq(s, 1, Len(s) - 1))
    ELSE s

TrimSpace(s) == TrimRight(TrimLeft(s))

----------------------------------------------------------------------------
(* url.PathEscape, url.QueryEscape, strings.ToUpper, strings.EqualFold,    *)
(* fmt.Sprintf("%d")                                                       *)

\* The UTF-8 bytes of a rune.
Utf8(r) ==
    IF r < 128 THEN <<r>>
    ELSE IF r < 2048 THEN <<192 + (r \div 64), 128 + (r % 64)>>
    ELSE IF r < 65536
    THEN <<224 + (r \div 4096), 128 + ((r \div 64) % 64), 128 + (r % 64)>>
    ELSE <<240 + (r \div 262144), 128 + ((r \div 4096) % 64),
           128 + ((r \div 64) % 64), 128 + (r % 64)>>

RECURSIVE Bytes(_)
Bytes(s) == IF s = <<>> THEN <<>> ELSE Utf8(Head(s)) \o Bytes(Tail(s))

\* "0123456789ABCDEF"[d]
HexDigit(d) == IF d < 10 THEN 48 + d ELSE 55 + d

IsAlnum(b) == b \in 48..57 \/ b \in 65..90 \/ b \in 97..122

\* shouldEscape(c, encodePathSegment): kept are the letters and digits,
\* - _ . ~ and, of the reserved characters, $ & + : = @
ShouldEscapePathSegment(b) ==
    /\ ~IsAlnum(b)
    /\ b \notin {45, 95, 46, 126}
    /\ b \notin {36, 38, 43, 58, 61, 64}

\* shouldEscape(c, encodeQueryComponent): kept are the letters and digits
\* and - _ . ~
ShouldEscapeQueryComponent(b) ==
    /\ ~IsAlnum(b)
    /\ b \notin {45, 95, 46, 126}

RECURSIVE EscapePathBytes(_)
EscapePathBytes(bs) ==
    IF bs = <<>> THEN <<>>
    ELSE (IF ShouldEscapePathSegment(Head(bs))
          THEN <<37, HexDigit(Head(bs) \div 16), HexDigit(Head(bs) % 16)>>
          ELSE <<Head(bs)>>)
         \o EscapePathBytes(Tail(bs))

RECURSIVE EscapeQueryBytes(_)
EscapeQueryBytes(bs) ==
    IF bs = <<>> THEN <<>>
    ELSE (IF Head(bs) = 32 THEN <<43>>
          ELSE IF ShouldEscapeQueryComponent(Head(bs))
          THEN <<37, HexDigit(Head(bs) \div 16), HexDigit(Head(bs) % 16)>>
          ELSE <<Head(bs)>>)
         \o EscapeQueryBytes(Tail(bs))

PathEscape(s) == EscapePathBytes(Bytes(s))
QueryEscape(s) == EscapeQueryBytes(Bytes(s))

\* unicode.CaseRanges, the upper-case column (Unicode 15.0): <<Lo, Hi, stride,
\* delta>>, the runes Lo, Lo + stride, ... up to Hi map to themselves + delta.
CaseRanges ==
    {<<97, 122, 1, -32>>, <<181, 181, 1, 743>>, <<224, 246, 1, -32>>,
     <<248, 254, 1, -32>>, <<255, 255, 1, 121>>, <<257, 303, 2, -1>>,
     <<305, 305, 1, -232>>, <<307, 311, 2, -1>>, <<314, 328, 2, -1>>,
     <<331, 375, 2, -1>>, <<378, 382, 2, -1>>, <<383, 383, 1, -300>>,
     <<384, 384, 1, 195>>, <<387, 389, 2, -1>>, <<392, 392, 1, -1>>,
     <<396, 396, 1, -1>>, <<402, 402, 1, -1>>, <<405, 405, 1, 97>>,
     <<409, 409, 1, -1>>, <<410, 410, 1, 163>>, <<414, 414, 1, 130>>,
     <<417, 421, 2, -1>>, <<424, 424, 1, -1>>, <<429, 429, 1, -1>>,
     <<432, 432, 1, -1>>, <<436, 438, 2, -1>>, <<441, 441, 1, -1>>,
     <<445, 445, 1, -1>>, <<447, 447, 1, 56>>, <<453, 453, 1, -1>>,
     <<454, 454, 1, -2>>, <<456, 456, 1, -1>>, <<457, 457, 1, -2>>,
     <<459, 459, 1, -1>>, <<460, 460, 1, -2>>, <<462, 476, 2, -1>>,
     <<477, 477, 1, -79>>, <<479, 495, 2, -1>>, <<498, 498, 1, -1>>,
     <<499, 499, 1, -2>>, <<501, 501, 1, -1>>, <<505, 543, 2, -1>>,
     <<547, 563, 2, -1>>, <<572, 572, 1, -1>>, <<575, 576, 1, 10815>>,
     <<578, 578, 1, -1>>, <<583, 591, 2, -1>>, <<592, 592, 1, 10783>>,
     <<593, 593, 1, 10780>>, <<594, 594, 1, 10782>>, <<595, 595, 1, -210>>,
     <<596, 596, 1, -206>>, <<598, 599, 1, -205>>, <<601, 601, 1, -202>>,
     <<603, 603, 1, -203>>, <<604, 604, 1, 42319>>, <<608, 608, 1, -205>>,
     <<609, 609, 1, 42315>>, <<611, 611, 1, -207>>, <<613, 613, 1, 42280>>,
     <<614, 614, 1, 42308>>, <<616, 616, 1, -209>>, <<617, 617, 1, -211>>,
     <<618, 618, 1, 42308>>, <<619, 619, 1, 10743>>, <<620, 620, 1, 42305>>,
     <<623, 623, 1, -211>>, <<625, 625, 1, 10749>>, <<626, 626, 1, -213>>,
     <<629, 629, 1, -214>>, <<637, 637, 1, 10727>>, <<640, 640, 1, -218>>,
     <<642, 642, 1, 42307>>, <<643, 643, 1, -218>>, <<647, 647, 1, 42282>>,
     <<648, 648, 1, -218>>, <<649, 649, 1, -69>>, <<650, 651, 1, -217>>,
     <<652, 652, 1, -71>>, <<658, 658, 1, -219>>, <<669, 669, 1, 42261>>,
     <<670, 670, 1, 42258>>, <<837, 837, 1, 84>>, <<881, 883, 2, -1>>,
     <<887, 887, 1, -1>>, <<891, 893, 1, 130>>, <<940, 940, 1, -38>>,
     <<941, 943, 1, -37>>, <<945, 961, 1, -32>>, <<962, 962, 1, -31>>,
     <<963, 971, 1, -32>>, <<972, 972, 1, -64>>, <<973, 974, 1, -63>>,
     <<976, 976, 1, -62>>, <<977, 977, 1, -57>>, <<981, 981, 1, -47>>,
     <<982, 982, 1, -54>>, <<983, 983, 1, -8>>, <<985, 1007, 2, -1>>,
     <<1008, 1008, 1, -86>>, <<1009, 1009, 1, -80>>, <<1010, 1010, 1, 7>>,
     <<1011, 1011, 1, -116>>, <<1013, 1013, 1, -96>>, <<1016, 1016, 1, -1>>,
     <<1019, 1019, 1, -1>>, <<1072, 1103, 1, -32>>, <<1104, 1119, 1, -80>>,
     <<1121, 1153, 2, -1>>, <<1163, 1215, 2, -1>>, <<1218, 1230, 2, -1>>,
     <<1231, 1231, 1, -15>>, <<1233, 1327, 2, -1>>, <<1377, 1414, 1, -48>>,
     <<4304, 4346, 1, 3008>>, <<4349, 4351, 1, 3008>>, <<5112, 5117, 1, -8>>,
     <<7296, 7296, 1, -6254>>, <<7297, 7297, 1, -6253>>, <<7298, 7298, 1, -6244>>,
     <<7299, 7300, 1, -6242>>, <<7301, 7301, 1, -6243>>, <<7302, 7302, 1, -6236>>,
     <<7303, 7303, 1, -6181>>, <<7304, 7304, 1, 35266>>, <<7545, 7545, 1, 35332>>,
     <<7549, 7549, 1, 3814>>, <<7566, 7566, 1, 35384>>, <<7681, 7829, 2, -1>>,
     <<7835, 7835, 1, -59>>, <<7841, 7935, 2, -1>>, <<7936, 7943, 1, 8>>,
     <<7952, 7957, 1, 8>>, <<7968, 7975, 1, 8>>, <<7984, 7991, 1, 8>>,
     <<8000, 8005, 1, 8>>, <<8017, 8023, 2, 8>>, <<8032, 8039, 1, 8>>,
     <<8048, 8049, 1, 74>>, <<8050, 8053, 1, 86>>, <<8054, 8055, 1, 100>>,
     <<8056, 8057, 1, 128>>, <<8058, 8059, 1, 112>>, <<8060, 8061, 1, 126>>,
     <<8064, 8071, 1, 8>>, <<8080, 8087, 1, 8>>, <<8096, 8103, 1, 8>>,
     <<8112, 8113, 1, 8>>, <<8115, 8115, 1, 9>>, <<8126, 8126, 1, -7205>>,
     <<8131, 8131, 1, 9>>, <<8144, 8145, 1, 8>>, <<8160, 8161, 1, 8>>,
     <<8165, 8165, 1, 7>>, <<8179, 8179, 1, 9>>, <<8526, 8526, 1, -28>>,
     <<8560, 8575, 1, -16>>, <<8580, 8580, 1, -1>>, <<9424, 9449, 1, -26>>,
     <<11312, 11359, 1, -48>>, <<11361, 11361, 1, -1>>, <<11365, 11365, 1, -10795>>,
     <<11366, 11366, 1, -10792>>, <<11368, 11372, 2, -1>>, <<11379, 11379, 1, -1>>,
     <<11382, 11382, 1, -1>>, <<11393, 11491, 2, -1>>, <<11500, 11502, 2, -1>>,
     <<11507, 11507, 1, -1>>, <<11520, 11557, 1, -7264>>, <<11559, 11559, 1, -7264>>,
     <<11565, 11565, 1, -7264>>, <<42561, 42605, 2, -1>>, <<42625, 42651, 2, -1>>,
     <<42787, 42799, 2, -1>>, <<42803, 42863, 2, -1>>, <<42874, 42876, 2, -1>>,
     <<42879, 42887, 2, -1>>, <<42892, 42892, 1, -1>>, <<42897, 42899, 2, -1>>,
     <<42900, 42900, 1, 48>>, <<42903, 42921, 2, -1>>, <<42933, 42947, 2, -1>>,
     <<42952, 42954, 2, -1>>, <<42961, 42961, 1, -1>>, <<42967, 42969, 2, -1>>,
     <<42998, 42998, 1, -1>>, <<43859, 43859, 1, -928>>, <<43888, 43967, 1, -38864>>,
     <<65345, 65370, 1, -32>>, <<66600, 66639, 1, -40>>, <<66776, 66811, 1, -40>>,
     <<66967, 67003, 2, -39>>, <<66968, 66976, 2, -39>>, <<66980, 66992, 2, -39>>,
     <<66996, 67000, 2, -39>>, <<67004, 67004, 1, -39>>, <<68800, 68850, 1, -64>>,
     <<71872, 71903, 1, -32>>, <<93792, 93823, 1, -32>>, <<125218, 125251, 1, -34>>}

\* unicode.ToUpper
ToUpperRune(r) ==
    LET hit == {t \in CaseRanges : r \in t[1]..t[2] /\ (r - t[1]) % t[3] = 0}
    IN  IF hit = {} THEN r ELSE r + (CHOOSE t \in hit : TRUE)[4]

ToUpper(s) == [i \in 1..Len(s) |-> ToUpperRune(s[i])]

\* strings.EqualFold(s, "all"): a and l fold only with A and L.
EqualFoldAll(s) ==
    /\ Len(s) = 3
    /\ s[1] \in {97, 65}
    /\ s[2] \in {108, 76}
    /\ s[3] \in {108, 76}

\* The decimal digits of n.
RECURSIVE Digits(_)
Digits(n) == IF n < 10 THEN <<48 + n>> ELSE Append(Digits(n \div 10), 48 + (n % 10))

\* %d
Itoa(n) == IF n < 0 THEN <<45>> \o Digits(-n) ELSE Digits(n)

\* fmt.Sprintf("author.username=\"%s\"", mine)
AuthorQuery(mine) ==
    <<97, 117, 116, 104, 111, 114, 46, 117, 115, 101, 114, 110, 97, 109, 101, 61, 34>>
    \o mine \o <<34>>

\* strings.Join
RECURSIVE Join(_, _)
Join(elems, sep) ==
    IF elems = <<>> THEN <<>>
    ELSE IF Len(elems) = 1 THEN elems[1]
    ELSE elems[1] \o sep \o Join(Tail(elems), sep)

----------------------------------------------------------------------------
(* Request paths.  A path is the string the code formats (uri), with the   *)
(* route it belongs to; `page` is the page a next reference names.         *)

MkPath(route, uri, page) == [route |-> route, uri |-> uri, page |-> page]

\* params: "pagelen=%d"; "state=" + QueryEscape(ToUpper(state)) unless the
\* trimmed state is empty or folds to "all"; "q=" + QueryEscape(...) if Mine is set
ListParams(pageLen, opts) ==
    <<<<112, 97, 103, 101, 108, 101, 110, 61>> \o Itoa(pageLen)>>
    \o (IF TrimSpace(opts.State) # <<>> /\ ~EqualFoldAll(TrimSpace(opts.State))
        THEN <<<<115, 116, 97, 116, 101, 61>> \o QueryEscape(ToUpper(TrimSpace(opts.State)))>>
        ELSE <<>>)
    \o (IF opts.Mine # <<>>
        THEN <<<<113, 61>> \o QueryEscape(AuthorQuery(opts.Mine))>>
        ELSE <<>>)

\* /repositories/%s/%s/pullrequests
PullRequestsURI(workspace, repoSlug) ==
    <<47, 114, 101, 112, 111, 115, 105, 116, 111, 114, 105, 101, 115, 47>>
    \o PathEscape(workspace) \o <<47>> \o PathEscape(repoSlug)
    \o <<47, 112, 117, 108, 108, 114, 101, 113, 117, 101, 115, 116, 115>>

\* /repositories/%s/%s/pullrequests?%s
ListPath(workspace, repoSlug, pageLen, opts) ==
    MkPath("pullrequests",
           PullRequestsURI(workspace, repoSlug) \o <<63>>
               \o Join(ListParams(pageLen, opts), <<38>>),
           0)

\* /repositories/%s/%s/pullrequests/%d
PullRequestPath(workspace, repoSlug, id) ==
    MkPath("pullrequest", PullRequestsURI(workspace, repoSlug) \o <<47>> \o Itoa(id), 0)

\* /repositories/%s/%s/pullrequests
CreatePath(workspace, repoSlug) ==
    MkPath("pullrequests", PullRequestsURI(workspace, repoSlug), 0)

\* /repositories/%s/%s/pullrequests/%d/comments
CommentsPath(workspace, repoSlug, id) ==
    MkPath("comments",
           PullRequestsURI(workspace, repoSlug) \o <<47>> \o Itoa(id)
               \o <<47, 99, 111, 109, 109, 101, 110, 116, 115>>,
           0)

NoPath == MkPath("", <<>>, 0)

----------------------------------------------------------------------------
(* The transport log *)

EmptyBody == [k \in {} |-> 0]

LogEntry(fn, method, p, body, ok) ==
    [fn |-> fn, method |-> method, path |-> p, body |-> body, ok |-> ok]

\* req, err := c.http.NewRequest(...); if err != nil return; err := c.http.Do(req, &out)
RoundTripLog(method, p, body, outcome) ==
    IF outcome = "newrequest_fails"
    THEN <<LogEntry("NewRequest", method, p, body, FALSE)>>
    ELSE <<LogEntry("NewRequest", method, p, body, TRUE),
           LogEntry("Do", method, p, body, outcome = "ok")>>

RoundTripErr(outcome) ==
    IF outcome = "newrequest_fails" THEN ErrNewRequest
    ELSE IF outcome = "do_fails" THEN ErrDo
    ELSE NoErr

\* The tail of a single-request operation: NewRequest, Do, return &out or the error.
RoundTrip(method, p, body, outcome, value) ==
    [transport |-> RoundTripLog(method, p, body, outcome),
     result |-> IF outcome = "ok" THEN Result(value, NoItems, NoErr)
                ELSE Failure(RoundTripErr(outcome))]

\* A return before any use of the transport.
Rejected(err) == [transport |-> <<>>, result |-> Failure(err)]

----------------------------------------------------------------------------
(* The check that opens every operation *)

\* Variant: rejects only when both are empty.
RepoMissing_And(workspace, repoSlug) == workspace = <<>> /\ repoSlug = <<>>

\* if workspace == "" || repoSlug == ""
RepoMissing(workspace, repoSlug) == workspace = <<>> \/ repoSlug = <<>>

----------------------------------------------------------------------------
(* GetPullRequest *)

GetPullRequest(workspace, repoSlug, id, outcome) ==
    IF RepoMissing(workspace, repoSlug) THEN Rejected(ErrRepoRequired)
    ELSE RoundTrip("GET", PullRequestPath(workspace, repoSlug, id), EmptyBody,
                   outcome, "pr")

----------------------------------------------------------------------------
(* CreatePullRequest *)

ReviewerRefs(reviewers) ==
    [i \in 1..Len(reviewers) |-> [username |-> reviewers[i]]]

\* Variant: the destination branch name is lost.
CreateBody_NoDestination(input) ==
    [title |-> input.Title,
     close_source_branch |-> input.CloseSource,
     source |-> [branch |-> [name |-> input.Source]],
     destination |-> [branch |-> [name |-> <<>>]]]

\* body := map[string]any{...}, then the two optional keys
CreateBody(input) ==
    [title |-> input.Title,
     close_source_branch |-> input.CloseSource,
     source |-> [branch |-> [name |-> input.Source]],
     destination |-> [branch |-> [name |-> input.Destination]]]
    @@ (IF input.Description # "" THEN [description |-> input.Description]
        ELSE EmptyBody)
    @@ (IF Len(input.Reviewers) > 0 THEN [reviewers |-> ReviewerRefs(input.Reviewers)]
        ELSE EmptyBody)

CreatePullRequest(workspace, repoSlug, input, outcome) ==
    IF RepoMissing(workspace, repoSlug) THEN Rejected(ErrRepoRequired)
    ELSE IF TrimSpace(input.Title) = <<>> THEN Rejected(ErrTitleRequired)
    ELSE IF TrimSpace(input.Source) = <<>> \/ TrimSpace(input.Destination) = <<>>
    THEN Rejected(ErrBranchesRequired)
    ELSE RoundTrip("POST", CreatePath(workspace, repoSlug), CreateBody(input),
                   outcome, "pr")

----------------------------------------------------------------------------
(* UpdatePullRequest *)

\* Variant: a present but empty field is treated as absent.
UpdateBody_SkipEmpty(input) ==
    (IF input.Title.present /\ input.Title.val # "" THEN [title |-> input.Title.val]
     ELSE EmptyBody)
    @@ (IF input.Description.present /\ input.Description.val # ""
        THEN [description |-> input.Description.val]
        ELSE EmptyBody)

\* body := make(map[string]any); one key per non-nil pointer
UpdateBody(input) ==
    (IF input.Title.present THEN [title |-> input.Title.val] ELSE EmptyBody)
    @@ (IF input.Description.present THEN [description |-> input.Description.val]
        ELSE EmptyBody)

UpdatePullRequest(workspace, repoSlug, id, input, outcome) ==
    IF RepoMissing(workspace, repoSlug) THEN Rejected(ErrRepoRequired)
    ELSE IF DOMAIN UpdateBody(input) = {} THEN Rejected(ErrNoUpdateField)
    ELSE RoundTrip("PUT", PullRequestPath(workspace, repoSlug, id), UpdateBody(input),
                   outcome, "pr")

----------------------------------------------------------------------------
(* CommentPullRequest *)

\* Variant: line 0 is let through.
LineMissing_Negative(opts) == opts.Line < 0

\* if opts.Line <= 0
LineMissing(opts) == opts.Line <= 0

\* Variant: the range is not checked.
LineRangeInverted_Never(opts) == FALSE

\* if opts.LineFrom > opts.Line
LineRangeInverted(opts) == opts.LineFrom > opts.Line

\* Variant: from is sent whatever LineFrom is.
CommentInline_AlwaysFrom(opts) ==
    [path |-> opts.FilePath, to |-> opts.Line, from |-> opts.LineFrom]

\* inline := map[string]any{"path", "to"}, and "from" if opts.LineFrom > 0
CommentInline(opts) ==
    [path |-> opts.FilePath, to |-> opts.Line]
    @@ (IF opts.LineFrom > 0 THEN [from |-> opts.LineFrom] ELSE EmptyBody)

CommentPayload(opts) ==
    [content |-> [raw |-> opts.Text]]
    @@ (IF opts.FilePath # "" THEN [inline |-> CommentInline(opts)] ELSE EmptyBody)

CommentPullRequest(workspace, repoSlug, id, opts, outcome) ==
    IF RepoMissing(workspace, repoSlug) THEN Rejected(ErrRepoRequired)
    ELSE IF TrimSpace(opts.Text) = <<>> THEN Rejected(ErrTextRequired)
    ELSE IF opts.FilePath # "" /\ LineMissing(opts) THEN Rejected(ErrLinePositive)
    ELSE IF opts.FilePath # "" /\ opts.LineFrom > 0 /\ LineRangeInverted(opts)
    THEN Rejected(ErrLineRange(opts.LineFrom, opts.Line))
    ELSE RoundTrip("POST", CommentsPath(workspace, repoSlug, id), CommentPayload(opts),
                   outcome, "comment")

----------------------------------------------------------------------------
(* The server of a listing: NumPages pages, each a list of pull requests   *)
(* and a `next` reference.  The first path of a listing is served page 1.  *)
(* A pull request is its id; page contents may repeat across pages.        *)

EmptyNext == [kind |-> "empty", page |-> 0]     \* "next": ""
BadNext == [kind |-> "bad", page |-> 0]         \* a string url.Parse rejects
NextRefs == {EmptyNext, BadNext} \cup [kind : {"abs", "rel"}, page : 1..NumPages]

Items(n) == [i \in 1..n |-> i]
Pages == [values : {Items(n) : n \in 0..MaxPageItems}, next : NextRefs]

IsLink(next) == next.kind \in {"abs", "rel"}

\* The first n pages of the server's next-chain, from page i.
RECURSIVE Chain(_, _, _)
Chain(server, i, n) ==
    IF n = 0 THEN <<>>
    ELSE IF IsLink(server[i].next)
    THEN <<i>> \o Chain(server, server[i].next.page, n - 1)
    ELSE <<i>>

\* The pages a walk can come to.
OnChain(server) ==
    LET c == Chain(server, 1, NumPages) IN {c[j] : j \in 1..Len(c)}

\* A page no walk comes to is never served: such pages are left blank, one
\* server standing for all that differ only there.  The pages are numbered in
\* the order the chain first comes to them, and a server writes its
\* references to a next page all absolute or all relative.
BlankPage == [values |-> <<>>, next |-> EmptyNext]
Servers ==
    {server \in [1..NumPages -> Pages] :
        /\ \A p \in 1..NumPages : p \notin OnChain(server) => server[p] = BlankPage
        /\ \A p \in 1..NumPages :
               (p \in OnChain(server) /\ IsLink(server[p].next))
                   => server[p].next.page <= p + 1
        /\ \A p, q \in 1..NumPages :
               (IsLink(server[p].next) /\ IsLink(server[q].next))
                   => server[p].next.kind = server[q].next.kind}
NoServer == <<>>

\* The chain from page 1 comes to a page without a reference to a next page.
ChainFinite(server) ==
    LET c == Chain(server, 1, NumPages) IN ~IsLink(server[c[Len(c)]].next)

Limits == {-1, 100, 101} \cup 0..MaxLimit

ListOptions == [State : States, Limit : Limits, Mine : Mines]

\* The pages of the cycle that a chain without end runs into: the chain is in
\* it after NumPages pages, and is round it after NumPages more.
CyclePages(server) ==
    LET c == Chain(server, 1, 2 * NumPages)
    IN  {c[j] : j \in (NumPages + 1)..(2 * NumPages)}

\* The number of items on the pages, repeats counted.
RECURSIVE CountItems(_, _)
CountItems(server, pages) ==
    IF pages = <<>> THEN 0
    ELSE Len(server[Head(pages)].values) + CountItems(server, Tail(pages))

\* The loop of the code has no bound: it is left by a failure, by the limit
\* (L100-103) or by an empty next (L105-107).  Against this server and limit
\* one of the last two ends the walk, whatever the transport answers: the
\* chain ends, or len(prs) comes to the limit, on the pages before the cycle
\* or by going round a cycle that holds an item.
WalkFinite(server, limit) ==
    \/ ChainFinite(server)
    \/ /\ limit > 0
       /\ \/ \E p \in CyclePages(server) : server[p].values # <<>>
          \/ CountItems(server, Chain(server, 1, NumPages)) >= limit

\* The servers a listing with these options is run against.  A walk with no
\* limit round a cycle, or with a limit it does not reach before a cycle
\* without items, lasts as long as the transport answers, its log growing without end: these
\* pairs of server and limit are not among the inputs.  Of the walks round a
\* cycle that the limit ends, those are run that set no filter (State and
\* Mine are read for the first path only) and, for a limit above MaxLimit,
\* that find every page full (the shortest such walks: a limit of 100 takes
\* 100 / MaxPageItems requests).
ServersFor(opts) ==
    {server \in Servers :
        /\ WalkFinite(server, opts.Limit)
        /\ \/ ChainFinite(server)
           \/ /\ opts.State = <<>> /\ opts.Mine = <<>>
              /\ opts.Limit > MaxLimit =>
                     \A p \in OnChain(server) : Len(server[p].values) = MaxPageItems}

\* The request URI of the reference to page p: its path and query,
\* /pullrequests?page=<p>
PagePath(p) == MkPath("page", <<47, 112, 117, 108, 108, 114, 101, 113, 117, 101, 115, 116, 115, 63, 112, 97, 103, 101, 61>> \o Itoa(p), p)

\* url.Parse: an absolute reference carries scheme and host, a relative one neither.
UrlParse(next) ==
    [ok |-> next.kind # "bad",
     url |-> [scheme |-> IF next.kind = "abs" THEN "https" ELSE "",
              host |-> IF next.kind = "abs" THEN "api.bitbucket.org" ELSE "",
              uri |-> PagePath(next.page)]]

\* (*URL).RequestURI: scheme and host dropped; never the empty string.
RequestURI(u) == u.uri

\* What c.http.Do decodes into `page` for a GET of p.
Serve(server, p) ==
    IF p.route = "pullrequests" THEN server[1] ELSE server[p.page]

----------------------------------------------------------------------------
(* ListPullRequests *)

\* pageLen := opts.Limit; if pageLen <= 0 || pageLen > 100 { pageLen = 20 }
PageLen(limit) ==
    IF limit <= 0 \/ limit > MaxPageLen THEN DefaultPageLen ELSE limit

\* Variant: stops only once the limit is exceeded.
LimitReached_Exceeded(acc, limit) == limit > 0 /\ Len(acc) > limit

\* if opts.Limit > 0 && len(prs) >= opts.Limit
LimitReached(acc, limit) == limit > 0 /\ Len(acc) >= limit

\* Variant: no truncation.
Truncate_Keep(acc, limit) == acc

\* prs = prs[:opts.Limit]
Truncate(acc, limit) == SubSeq(acc, 1, limit)

ListReturn(items, log) ==
    [pc |-> "done", path |-> NoPath, prs |-> <<>>, log |-> log,
     result |-> Result("list", items, NoErr)]

\* Variant: a failure returns what was accumulated, as a success.
ListAbort_Partial(acc, err, log) ==
    [pc |-> "done", path |-> NoPath, prs |-> <<>>, log |-> log,
     result |-> Result("list", acc, NoErr)]

\* return nil, err
ListAbort(acc, err, log) ==
    [pc |-> "done", path |-> NoPath, prs |-> <<>>, log |-> log,
     result |-> Failure(err)]

\* path = nextURL.RequestURI()
NextPath(p, next) == RequestURI(UrlParse(next).url)

\* Variant: a new page goes in front.
Accumulate_Prepend(acc, values) == values \o acc

\* prs = append(prs, page.Values...)
Accumulate(acc, values) == acc \o values

\* The prologue: the check, the page size, the first path.
ListPullRequests(workspace, repoSlug, opts) ==
    IF RepoMissing(workspace, repoSlug)
    THEN [pc |-> "done", path |-> NoPath, result |-> Failure(ErrRepoRequired)]
    ELSE [pc |-> "list",
          path |-> ListPath(workspace, repoSlug, PageLen(opts.Limit), opts),
          result |-> Failure(NoErr)]

\* One iteration of `for path != ""`.
ListIteration(server, limit, p, acc, outcome) ==
    LET log == RoundTripLog("GET", p, EmptyBody, outcome)
        page == Serve(server, p)
        all == Accumulate(acc, page.values)
    IN  IF outcome # "ok" THEN ListAbort(acc, RoundTripErr(outcome), log)
        ELSE IF LimitReached(all, limit) THEN ListReturn(Truncate(all, limit), log)
        ELSE IF page.next = EmptyNext THEN ListReturn(all, log)
        ELSE IF ~UrlParse(page.next).ok THEN ListAbort(all, ErrUrlParse, log)
        ELSE [pc |-> "list", path |-> NextPath(p, page.next), prs |-> all, log |-> log,
              result |-> Failure(NoErr)]

----------------------------------------------------------------------------
(* The state machine *)

NoCall == [op |-> "none", workspace |-> <<>>, repoSlug |-> <<>>, id |-> 0,
           input |-> EmptyBody]
Call(op, workspace, repoSlug, id, input) ==
    [op |-> op, workspace |-> workspace, repoSlug |-> repoSlug, id |-> id,
     input |-> input]

Init ==
    /\ pc = "idle"
    /\ call = NoCall
    /\ srv = NoServer
    /\ path = NoPath
    /\ prs = <<>>
    /\ transport = <<>>
    /\ result = Failure(NoErr)

Finish(c, r) ==
    /\ pc' = "done"
    /\ call' = c
    /\ transport' = r.transport
    /\ result' = r.result
    /\ UNCHANGED <<srv, path, prs>>

CallGetPullRequest ==
    /\ pc = "idle"
    /\ \E w \in Workspaces, s \in RepoSlugs, id \in PRIds, o \in Outcomes :
           Finish(Call("get", w, s, id, EmptyBody), GetPullRequest(w, s, id, o))

CallCreatePullRequest ==
    /\ pc = "idle"
    /\ \E w \in Workspaces, s \in RepoSlugs, in \in CreateInputs, o \in Outcomes :
           Finish(Call("create", w, s, 0, in), CreatePullRequest(w, s, in, o))

CallUpdatePullRequest ==
    /\ pc = "idle"
    /\ \E w \in Workspaces, s \in RepoSlugs, id \in PRIds, in \in UpdateInputs,
          o \in Outcomes :
           Finish(Call("update", w, s, id, in), UpdatePullRequest(w, s, id, in, o))

CallCommentPullRequest ==
    /\ pc = "idle"
    /\ \E w \in Workspaces, s \in RepoSlugs, id \in PRIds, in \in CommentOptions,
          o \in Outcomes :
           Finish(Call("comment", w, s, id, in), CommentPullRequest(w, s, id, in, o))

\* A call that is rejected meets no server.
CallListPullRequests ==
    /\ pc = "idle"
    /\ \E w \in Workspaces, s \in RepoSlugs, opts \in ListOptions :
           LET r == ListPullRequests(w, s, opts)
           IN  /\ pc' = r.pc
               /\ call' = Call("list", w, s, 0, opts)
               /\ IF r.pc = "list"
                  THEN \E server \in ServersFor(opts) : srv' = server
                  ELSE srv' = NoServer
               /\ path' = r.path
               /\ prs' = <<>>
               /\ transport' = <<>>
               /\ result' = r.result

ListPage ==
    /\ pc = "list"
    /\ \E o \in Outcomes :
           LET r == ListIteration(srv, call.input.Limit, path, prs, o)
           IN  /\ pc' = r.pc
               /\ path' = r.path
               /\ prs' = r.prs
               /\ transport' = transport \o r.log
               /\ result' = r.result
               /\ UNCHANGED <<call, srv>>

\* The caller takes the result; the client keeps nothing of the call.
Return ==
    /\ pc = "done"
    /\ pc' = "idle"
    /\ call' = NoCall
    /\ srv' = NoServer
    /\ path' = NoPath
    /\ prs' = <<>>
    /\ transport' = <<>>
    /\ result' = Failure(NoErr)

Next ==
    \/ CallListPullRequests
    \/ ListPage
    \/ CallGetPullRequest
    \/ CallCreatePullRequest
    \/ CallUpdatePullRequest
    \/ CallCommentPullRequest
    \/ Return

Spec == Init /\ [][Next]_vars

\* A call that is inside its loop goes on: nothing else runs in the goroutine.
LiveSpec == Spec /\ WF_vars(ListPage)

----------------------------------------------------------------------------
(* Vocabulary of the properties, stated on the arguments of the call, the  *)
(* pages of the server and the transport log, not on the operators above.  *)

Returned(op) == pc = "done" /\ call.op = op
HasRepo == call.workspace # <<>> /\ call.repoSlug # <<>>

\* Tab, LF, VT, FF, CR, space, NEL, NBSP, and the other Unicode spaces.
WhiteSpace ==
    {9, 10, 11, 12, 13, 32, 133, 160, 5760, 8192, 8193, 8194, 8195, 8196, 8197,
     8198, 8199, 8200, 8201, 8202, 8232, 8233, 8239, 8287, 12288}
NonBlank(s) == \E i \in 1..Len(s) : s[i] \notin WhiteSpace
\* The query of the URI carries the parameter: after "?" or "&", up to the
\* end or the next "&".
HasParam(uri, param) ==
    \E i \in 2..(Len(uri) - Len(param) + 1) :
        /\ uri[i - 1] \in {63, 38}
        /\ SubSeq(uri, i, i + Len(param) - 1) = param
        /\ i + Len(param) - 1 < Len(uri) => uri[i + Len(param)] = 38
Requests == SelectSeq(transport, LAMBDA e : e.fn = "NewRequest")
Executed == SelectSeq(transport, LAMBDA e : e.fn = "Do")

ValidationMessages ==
    {"workspace and repository slug are required",
     "title is required",
     "source and destination branches are required",
     "at least one field (title or description) must be provided",
     "comment text is required",
     "line number must be positive when file path is specified",
     "line range start (%d) must be less than or equal to end (%d)"}

\* The arguments of a write call pass every check the operation makes.
AcceptedInput ==
    /\ HasRepo
    /\ call.op = "create" =>
           /\ NonBlank(call.input.Title)
           /\ NonBlank(call.input.Source)
           /\ NonBlank(call.input.Destination)
    /\ call.op = "update" =>
           call.input.Title.present \/ call.input.Description.present
    /\ call.op = "comment" =>
           /\ NonBlank(call.input.Text)
           /\ call.input.FilePath # "" =>
                  /\ call.input.Line >= 1
                  /\ call.input.LineFrom > 0 => call.input.LineFrom <= call.input.Line

RECURSIVE ItemsOf(_, _)
ItemsOf(server, pages) ==
    IF pages = <<>> THEN <<>>
    ELSE server[Head(pages)].values \o ItemsOf(server, Tail(pages))

Take(items, n) == SubSeq(items, 1, IF Len(items) < n THEN Len(items) ELSE n)

\* The pages the walk has been served so far, and their items.
Walked == Chain(srv, 1, Len(Executed))
WalkedItems == ItemsOf(srv, Walked)
LastWalked == srv[Walked[Len(Walked)]]

\* The paths requested are the first path, then the chain's references in order.
FollowsChain ==
    /\ Len(Walked) = Len(Executed)
    /\ \A j \in 1..Len(Executed) :
           /\ Executed[j].method = "GET"
           /\ Executed[j].path.route = (IF j = 1 THEN "pullrequests" ELSE "page")
           /\ j > 1 => Executed[j].path.page = Walked[j]

\* A chain that is not finite runs into a cycle within NumPages pages, and
\* the NumPages pages after those are all the pages of the cycle.
CycleHasItems(server) ==
    /\ ~ChainFinite(server)
    /\ \E i \in (NumPages + 1)..(2 * NumPages) :
           server[Chain(server, 1, 2 * NumPages)[i]].values # <<>>

----------------------------------------------------------------------------
(* C1 *)

\* C1: in each of the five operations, whatever the other arguments, a call
\* with an empty workspace or an empty repoSlug returns the error
\* "workspace and repository slug are required" and makes no call to the
\* transport.
C1_RepoRequiredFirst ==
    (call.op # "none" /\ ~HasRepo) =>
        /\ pc = "done"
        /\ result.err.msg = "workspace and repository slug are required"
        /\ result.value = "nil"
        /\ transport = <<>>

C1_Witness ==
    /\ Returned("comment")
    /\ call.workspace # <<>> /\ call.repoSlug = <<>>
    /\ call.input.Text = <<>> /\ call.input.FilePath # "" /\ call.input.Line = 0
    /\ result.err.msg = "workspace and repository slug are required"

----------------------------------------------------------------------------
(* C2 *)

\* C2: for CreatePullRequest, UpdatePullRequest and CommentPullRequest, a
\* call that returns a validation error has made no call to the transport,
\* and NewRequest/Do are called only when the arguments pass every check of
\* the operation; arguments that fail a check get a validation error.
C2_ValidateBeforeRequest ==
    (pc = "done" /\ call.op \in {"create", "update", "comment"}) =>
        /\ result.err.msg \in ValidationMessages => transport = <<>>
        /\ transport # <<>> => AcceptedInput
        /\ ~AcceptedInput => result.err.msg \in ValidationMessages

C2_Witness ==
    /\ Returned("comment")
    /\ HasRepo /\ NonBlank(call.input.Text)
    /\ call.input.FilePath # "" /\ call.input.Line = 1 /\ call.input.LineFrom = 2
    /\ result.err.msg = "line range start (%d) must be less than or equal to end (%d)"
    /\ result.err.args = <<2, 1>>
    /\ transport = <<>>

----------------------------------------------------------------------------
(* C3 *)

\* C3: ListPullRequests with Limit = L > 0, when it returns without error,
\* has requested the pages of the next-chain in order, has made no request
\* once the pages received held L items or more (whenever a request is about
\* to be made the accumulator holds fewer than L items), and returns the
\* first min(L, total) items of the chain in server order.
C3_LimitedListing ==
    (call.op = "list" /\ HasRepo /\ call.input.Limit > 0) =>
        /\ pc = "list" => Len(prs) < call.input.Limit
        /\ (pc = "done" /\ result.err = NoErr) =>
               /\ FollowsChain
               /\ \A j \in 1..(Len(Executed) - 1) :
                      Len(ItemsOf(srv, Chain(srv, 1, j))) < call.input.Limit
               /\ \/ Len(WalkedItems) >= call.input.Limit
                  \/ LastWalked.next = EmptyNext
               /\ result.items = Take(WalkedItems, call.input.Limit)

\* Limit 2, pages of 1 and 2 items and a further page on offer: two requests,
\* three items received, two returned.
C3_Witness ==
    /\ Returned("list") /\ call.input.Limit = 2 /\ result.err = NoErr
    /\ Len(Executed) = 2 /\ Len(WalkedItems) = 3
    /\ IsLink(LastWalked.next)
    /\ result.items = <<1, 1>>

----------------------------------------------------------------------------
(* C4 *)

\* C4: ListPullRequests with Limit = 0 asks for pagelen=20 and follows the
\* next references, one request per page in chain order; when it returns
\* without error it has reached a page with an empty next, has requested each
\* page of the chain once, and returns the concatenation of the pages' items
\* in page order, nothing dropped, reordered or deduplicated.
C4_UnlimitedListing ==
    (call.op = "list" /\ HasRepo /\ call.input.Limit = 0) =>
        /\ transport # <<>> =>
               /\ HasParam(transport[1].path.uri, <<112, 97, 103, 101, 108, 101, 110, 61, 50, 48>>)
               /\ transport[1].path.route = "pullrequests"
        /\ pc = "list" =>
               /\ FollowsChain
               /\ Len(Requests) = Len(Executed)
               /\ prs = WalkedItems
        /\ (pc = "done" /\ result.err = NoErr) =>
               /\ FollowsChain
               /\ Len(Requests) = Len(Executed)
               /\ LastWalked.next = EmptyNext
               /\ Cardinality({Walked[j] : j \in 1..Len(Walked)}) = Len(Walked)
               /\ result.items = WalkedItems

\* Two pages, <<1, 2>> then <<1>>: the repeated item is kept.
C4_Witness ==
    /\ Returned("list") /\ call.input.Limit = 0 /\ result.err = NoErr
    /\ Len(Executed) = 2
    /\ result.items = <<1, 2, 1>>

----------------------------------------------------------------------------
(* C5 *)

\* The chain is finite, or the limit is reached: there is a limit, and the
\* cycle of the chain holds a page with items or the pages before the cycle
\* hold as many items as the limit.
WalkEnds ==
    \/ ChainFinite(srv)
    \/ /\ call.input.Limit > 0
       /\ \/ CycleHasItems(srv)
          \/ Len(ItemsOf(srv, Chain(srv, 1, NumPages))) >= call.input.Limit

\* The requests such a walk can take: one per page of a finite chain; round
\* a cycle, at most one round of the chain's pages per item of the limit.
RequestBound ==
    IF ChainFinite(srv) THEN NumPages ELSE NumPages * call.input.Limit

\* C5: under fairness of the request/response step, a pagination walk whose
\* next-chain is finite, or whose limit is reached, returns (a result or an
\* error) after a finite number of requests, at most RequestBound, for every
\* limit and every content of the pages.
C5_WalkTerminates ==
    (pc = "list" /\ WalkEnds)
        ~> (Returned("list") /\ HasRepo /\ Len(Requests) <= RequestBound)

\* A walk of three requests round a cycle that ended at the limit.
C5_Witness ==
    /\ Returned("list") /\ result.err = NoErr
    /\ ~ChainFinite(srv)
    /\ Len(Executed) = 3
    /\ Len(result.items) = call.input.Limit

----------------------------------------------------------------------------
(* C6 *)

CallFailed == \E j \in 1..Len(transport) : ~transport[j].ok

\* The last page received carries a reference url.Parse rejects.
BadNextReceived ==
    /\ ~CallFailed
    /\ Len(Executed) > 0
    /\ LastWalked.next = BadNext

\* The limit was reached on the pages received.
LimitMet == call.input.Limit > 0 /\ Len(WalkedItems) >= call.input.Limit

\* The walk came to parse the reference: the limit was not reached on that
\* page.
ParseFailed == BadNextReceived /\ ~LimitMet

\* C6 as stated: when NewRequest or Do fails for a page, or a page's next
\* reference cannot be parsed, ListPullRequests returns the error with no
\* items.
C6_AsStated ==
    (Returned("list") /\ HasRepo /\ (CallFailed \/ BadNextReceived)) =>
        (result.err # NoErr /\ result.items = <<>>)

\* C6, amended: when NewRequest or Do fails for a page, or the parse of a
\* page's next reference fails, ListPullRequests makes no further request
\* and returns the error with no items, whatever it had accumulated; the
\* reference is parsed only when the limit was not reached on its page: a
\* page that reaches the limit ends the walk with success and the first
\* Limit items, even if its next reference cannot be parsed.  The call
\* returns without error only if nothing failed.
C6_FailureDiscardsAll ==
    (call.op = "list" /\ HasRepo) =>
        /\ \A j \in 1..Len(transport) :
               ~transport[j].ok => (pc = "done" /\ j = Len(transport))
        /\ pc = "done" =>
               /\ (CallFailed \/ ParseFailed) <=> result.err # NoErr
               /\ result.err # NoErr => (result.items = <<>> /\ result.value = "nil")
               /\ CallFailed =>
                      result.err.msg = (IF transport[Len(transport)].fn = "Do"
                                        THEN "transport: Do failed"
                                        ELSE "transport: NewRequest failed")
               /\ ParseFailed => result.err.msg = "url: parse failed"
               /\ (BadNextReceived /\ LimitMet) =>
                      /\ result.err = NoErr
                      /\ result.items = Take(WalkedItems, call.input.Limit)

\* The parse of the second page's reference fails after two pages with
\* items, the limit not reached.
C6_Witness ==
    /\ Returned("list") /\ ParseFailed
    /\ call.input.Limit > 0
    /\ Len(Requests) = 2
    /\ srv[1].values # <<>> /\ LastWalked.values # <<>>
    /\ result.items = <<>> /\ result.err.msg = "url: parse failed"

----------------------------------------------------------------------------
(* C7 *)

PresentFields(input) ==
    {k \in {"title", "description"} :
        IF k = "title" THEN input.Title.present ELSE input.Description.present}

\* C7: UpdatePullRequest with non-empty workspace and repoSlug makes a
\* request if and only if Title or Description is present; with both absent
\* it fails with "at least one field (title or description) must be
\* provided"; a present field counts even when it is the empty string; and
\* the keys of the request body are exactly the present fields, each with the
\* value given.
C7_UpdateSparseBody ==
    (Returned("update") /\ HasRepo) =>
        /\ transport # <<>> <=> PresentFields(call.input) # {}
        /\ PresentFields(call.input) = {} =>
               result.err.msg =
                   "at least one field (title or description) must be provided"
        /\ \A j \in 1..Len(transport) :
               /\ transport[j].method = "PUT"
               /\ DOMAIN transport[j].body = PresentFields(call.input)
               /\ call.input.Title.present =>
                      transport[j].body.title = call.input.Title.val
               /\ call.input.Description.present =>
                      transport[j].body.description = call.input.Description.val

\* Title present and empty, Description absent: the request goes out with
\* {"title": ""}.
C7_Witness ==
    /\ Returned("update") /\ HasRepo
    /\ call.input.Title = Present("") /\ call.input.Description = Absent
    /\ Len(Executed) = 1
    /\ Executed[1].body = [title |-> ""]
    /\ result.err = NoErr

----------------------------------------------------------------------------
(* C8 *)

\* C8: every request CommentPullRequest makes has content.raw equal to Text
\* and has an inline object if and only if FilePath is non-empty; the inline
\* object has path = FilePath, to = Line >= 1, and a from key if and only if
\* LineFrom > 0, then with from = LineFrom <= to.  With FilePath empty, Line
\* and LineFrom are neither checked nor sent.
C8_CommentPayload ==
    Returned("comment") =>
        /\ \A j \in 1..Len(transport) :
               LET body == transport[j].body IN
               /\ transport[j].method = "POST"
               /\ body.content = [raw |-> call.input.Text]
               /\ DOMAIN body \subseteq {"content", "inline"}
               /\ "inline" \in DOMAIN body <=> call.input.FilePath # ""
               /\ "inline" \in DOMAIN body =>
                      /\ body.inline.path = call.input.FilePath
                      /\ body.inline.to = call.input.Line
                      /\ body.inline.to >= 1
                      /\ DOMAIN body.inline \subseteq {"path", "to", "from"}
                      /\ "from" \in DOMAIN body.inline <=> call.input.LineFrom > 0
                      /\ "from" \in DOMAIN body.inline =>
                             /\ body.inline.from = call.input.LineFrom
                             /\ body.inline.from <= body.inline.to
        /\ (HasRepo /\ NonBlank(call.input.Text) /\ call.input.FilePath = "") =>
               /\ transport # <<>>
               /\ DOMAIN transport[1].body = {"content"}

\* A range comment: from 1 to 2.
C8_Witness ==
    /\ Returned("comment") /\ result.err = NoErr
    /\ call.input.FilePath # "" /\ call.input.Line = 2 /\ call.input.LineFrom = 1
    /\ Len(Executed) = 1
    /\ Executed[1].body.inline = [path |-> call.input.FilePath, to |-> 2, from |-> 1]

----------------------------------------------------------------------------
(* C9 *)

\* C9 as stated: every call of CommentPullRequest with a non-empty FilePath
\* and Line <= 0 fails with "line number must be positive when file path is
\* specified".
C9_AsStated ==
    (Returned("comment") /\ call.input.FilePath # "" /\ call.input.Line <= 0) =>
        result.err.msg = "line number must be positive when file path is specified"

\* C9, amended: a call of CommentPullRequest with non-empty workspace and
\* repoSlug, a non-blank Text, a non-empty FilePath and Line <= 0 fails with
\* "line number must be positive when file path is specified", before any
\* request; with an empty workspace or repoSlug, or a blank Text, the call
\* fails with the message of that earlier check.
C9_LinePositive ==
    (Returned("comment") /\ call.input.FilePath # "" /\ call.input.Line <= 0) =>
        /\ transport = <<>>
        /\ result.value = "nil"
        /\ result.err.msg =
               (IF ~HasRepo THEN "workspace and repository slug are required"
                ELSE IF ~NonBlank(call.input.Text) THEN "comment text is required"
                ELSE "line number must be positive when file path is specified")

C9_Witness ==
    /\ Returned("comment") /\ HasRepo /\ NonBlank(call.input.Text)
    /\ call.input.FilePath # "" /\ call.input.Line = 0
    /\ result.err.msg = "line number must be positive when file path is specified"

----------------------------------------------------------------------------
(* C10 *)

\* The CreatePullRequestInput read back from a request body.
Decoded(body) ==
    [Title |-> body.title,
     Description |-> IF "description" \in DOMAIN body THEN body.description ELSE "",
     Source |-> body.source.branch.name,
     Destination |-> body.destination.branch.name,
     CloseSource |-> body.close_source_branch,
     Reviewers |-> IF "reviewers" \in DOMAIN body
                   THEN [i \in 1..Len(body.reviewers) |-> body.reviewers[i].username]
                   ELSE <<>>]

\* C10: for every input CreatePullRequest accepts, the request body carries
\* title, source.branch.name and destination.branch.name verbatim, and the
\* input read back from the body passes the validation of CreatePullRequest
\* again.
C10_CreateRoundTrip ==
    (Returned("create") /\ AcceptedInput) =>
        /\ transport # <<>>
        /\ \A j \in 1..Len(transport) :
               LET body == transport[j].body
                   back == Decoded(body)
               IN  /\ transport[j].method = "POST"
                   /\ body.title = call.input.Title
                   /\ body.source.branch.name = call.input.Source
                   /\ body.destination.branch.name = call.input.Destination
                   /\ CreatePullRequest(call.workspace, call.repoSlug, back, "ok").result.err
                          = NoErr

\* A title with a leading no-break space goes out untrimmed.
C10_Witness ==
    /\ Returned("create") /\ result.err = NoErr
    /\ call.input.Title = <<160, 120>>
    /\ call.input.Reviewers # <<>> /\ call.input.Description # ""
    /\ Len(Executed) = 1
    /\ Executed[1].body.title = <<160, 120>>
    /\ Decoded(Executed[1].body) = call.input

====
